---- MODULE Spec2Model ----
(***************************************************************************)
(* simulocloud/tiles.py: the grid of tiles (TilesGrid), its construction   *)
(* from split locations (retile, make_edges_grid, from_splitlocs), its     *)
(* validation and its numpy-like contiguous slicing (__getitem__).         *)
(*                                                                         *)
(* Arrays are records [shape, arr] with 0-based index triples.  A point    *)
(* cloud is the set of its points <<x, y, z>>.  The edges array folds its  *)
(* 4th axis (size 3) into the coordinate triple stored at each lattice     *)
(* point.  Python's None is the empty tuple, a value v is <<v>>.           *)
(***************************************************************************)
EXTENDS Integers, Sequences, FiniteSets, TLC

\* ------------------------------------------------------------------ bounds
\* Point and split-location coordinates range over 0..MaxCoord.
MaxCoord == 3
\* At most MaxLocs split locations in one split-location mapping.
MaxLocs == 2
\* At most MaxPts points in all the input point clouds together.
MaxPts == 3
\* Integers of a __getitem__ key range over -MaxIdx..MaxIdx.
MaxIdx == 2

\* np.inf (tiles.py line 126): larger than every coordinate of the model.
Inf == 1000

Axes == <<"x", "y", "z">>
AxisSet == {"x", "y", "z"}
Ax(d) == IF d = "x" THEN 1 ELSE IF d = "y" THEN 2 ELSE 3

None == <<>>
Some(v) == <<v>>
IsNone(o) == Len(o) = 0
Val(o) == o[1]

Min(S) == CHOOSE m \in S : \A n \in S : m <= n
Max(S) == CHOOSE m \in S : \A n \in S : m >= n

\* ------------------------------------------------------------- ndarrays
\* The index triples of an array of the given 3D shape.
Indices(shape) ==
    {<<i, j, k>> : i \in 0..(shape[1] - 1), j \in 0..(shape[2] - 1),
                   k \in 0..(shape[3] - 1)}

\* ------------------------------------------------ simulocloud.pointcloud
\* PointCloud.bounds: (minx, miny, minz, maxx, maxy, maxz).  A cloud with
\* no points is contained by every cell: its extent is the empty one,
\* (inf, inf, inf, -inf, -inf, -inf).
Bounds(pc) ==
    IF pc = {} THEN <<Inf, Inf, Inf, -Inf, -Inf, -Inf>>
    ELSE <<Min({p[1] : p \in pc}), Min({p[2] : p \in pc}), Min({p[3] : p \in pc}),
           Max({p[1] : p \in pc}), Max({p[2] : p \in pc}), Max({p[3] : p \in pc})>>

\* merge_bounds: the union of a sequence of bounds.
merge_bounds(bs) ==
    [c \in 1..6 |-> IF c <= 3 THEN Min({bs[i][c] : i \in DOMAIN bs})
                    ELSE Max({bs[i][c] : i \in DOMAIN bs})]

\* _get_dimension_bounds: (min, max) of bounds along dimension d.
get_dimension_bounds(bounds, d) == <<bounds[Ax(d)], bounds[Ax(d) + 3]>>

\* _inside_bounds: bounds A lie strictly within bounds B on every axis.
inside_bounds(A, B) ==
    \A d \in AxisSet :
        /\ get_dimension_bounds(A, d)[1] > get_dimension_bounds(B, d)[1]
        /\ get_dimension_bounds(A, d)[2] < get_dimension_bounds(B, d)[2]

\* PointCloud.split: len(dlocs)+1 fragments in ascending order along d;
\* fragment i holds the points in (dlocs[i-1], dlocs[i]], the outermost
\* fragments extending to the cloud's own bounds.
split(pc, d, dlocs) ==
    [i \in 1..(Len(dlocs) + 1) |->
        {p \in pc : /\ (i > 1 => p[Ax(d)] > dlocs[i - 1])
                    /\ (i <= Len(dlocs) => p[Ax(d)] <= dlocs[i])}]

\* PointCloud.__add__: the merged cloud.
add(pc1, pc2) == pc1 \cup pc2

\* ------------------------------------------------------------ dict, list
\* dict.get(d, [])
get(splitlocs, d) == IF d \in DOMAIN splitlocs THEN splitlocs[d] ELSE <<>>

\* sorted(dlocs)
sorted(dlocs) == SortSeq(dlocs, LAMBDA a, b : a < b)

\* ================================================================ retile
\* The caller's mapping after retile: every axis present, each list sorted
\* (splitlocs.setdefault(d, []) then splitlocs[d] = dlocs).
retile_splitlocs(splitlocs) == [d \in AxisSet |-> sorted(get(splitlocs, d))]

\* A variant of retile_shape that forgets the fragment above the last
\* location; C8 does not hold of it.
retile_shape_short(splitlocs) ==
    [a \in 1..3 |-> Len(retile_splitlocs(splitlocs)[Axes[a]])]

\* shape = [len(dlocs) + 1 for d in 'x', 'y', 'z']
retile_shape(splitlocs) ==
    [a \in 1..3 |-> Len(retile_splitlocs(splitlocs)[Axes[a]]) + 1]

\* tile_grid[i, ix, iy, iz] for one input cloud: split in x, then y, then z.
retile_one(pc, sl, idx) ==
    split(split(split(pc, "x", sl["x"])[idx[1] + 1],
                "y", sl["y"])[idx[2] + 1],
          "z", sl["z"])[idx[3] + 1]

\* np.sum(tile_grid, axis=0) at one index: the clouds' fragments merged.
RECURSIVE sum_axis0(_, _, _, _)
sum_axis0(pcs, sl, idx, n) ==
    IF n = 1 THEN retile_one(pcs[1], sl, idx)
    ELSE add(sum_axis0(pcs, sl, idx, n - 1), retile_one(pcs[n], sl, idx))

retile(pcs, splitlocs) ==
    LET sl == retile_splitlocs(splitlocs)
        shape == retile_shape(splitlocs)
    IN  [shape |-> shape,
         arr |-> [idx \in Indices(shape) |-> sum_axis0(pcs, sl, idx, Len(pcs))]]

\* ======================================================= make_edges_grid
\* The caller's mapping after make_edges_grid: missing axes are added with
\* an empty array, lists already present are left as they are.
edges_splitlocs(splitlocs) == [d \in AxisSet |-> get(splitlocs, d)]

\* A variant of d_edges with the two ends of the bounds exchanged; C1 does
\* not hold of it.
d_edges_swapped(bounds, splitlocs, d) ==
    <<get_dimension_bounds(bounds, d)[2]>>
        \o edges_splitlocs(splitlocs)[d]
        \o <<get_dimension_bounds(bounds, d)[1]>>

\* np.concatenate([[mind], dlocs, [maxd]]) for dimension d.
d_edges(bounds, splitlocs, d) ==
    <<get_dimension_bounds(bounds, d)[1]>>
        \o edges_splitlocs(splitlocs)[d]
        \o <<get_dimension_bounds(bounds, d)[2]>>

\* np.meshgrid(*edges, indexing='ij'), concatenated on the 4th axis.
make_edges_grid(bounds, splitlocs) ==
    LET edges == [a \in 1..3 |-> d_edges(bounds, splitlocs, Axes[a])]
        shape == [a \in 1..3 |-> Len(edges[a])]
    IN  [shape |-> shape,
         arr |-> [idx \in Indices(shape) |->
                    [a \in 1..3 |-> edges[a][idx[a] + 1]]]]

\* ============================================================= TilesGrid
\* TilesGrid.validate: every tile's bounds fall within its two edges, both
\* comparisons inclusive (np.less_equal on the mins, np.greater_equal on
\* the maxs).
\* A variant of validate with both comparisons exclusive; C7 does not
\* hold of it.
validate_strict(g) ==
    \A idx \in Indices(g.tiles.shape) :
        LET tile == g.tiles.arr[idx]
            lo == g.edges.arr[idx]
            hi == g.edges.arr[<<idx[1] + 1, idx[2] + 1, idx[3] + 1>>]
        IN  \A c \in 1..3 : /\ lo[c] < Bounds(tile)[c]
                            /\ hi[c] > Bounds(tile)[c + 3]

validate(g) ==
    \A idx \in Indices(g.tiles.shape) :
        LET tile == g.tiles.arr[idx]
            lo == g.edges.arr[idx]
            hi == g.edges.arr[<<idx[1] + 1, idx[2] + 1, idx[3] + 1>>]
        IN  \A c \in 1..3 : /\ lo[c] <= Bounds(tile)[c]
                            /\ hi[c] >= Bounds(tile)[c + 3]

\* TilesGrid.__init__: the exception raised ("none" when it returns).
init_err(tiles, edges, check) ==
    IF check /\ ~validate([tiles |-> tiles, edges |-> edges])
    THEN "TilesGridException" ELSE "none"

\* TilesGrid.__init__: the instance, or None when it raises.
init(tiles, edges, check) ==
    IF init_err(tiles, edges, check) = "none"
    THEN Some([tiles |-> tiles, edges |-> edges]) ELSE None

\* ---------------------------------------------------------- from_splitlocs
\* The caller's mapping after the sorting loop of from_splitlocs
\* (splitlocs[d] = sorted(splitlocs.get(d, []))).
from_splitlocs_splitlocs(splitlocs) ==
    [d \in AxisSet |-> sorted(get(splitlocs, d))]

\* A variant of splitloc_bounds that takes the first and last location as
\* the caller listed them, without sorting; C5 does not hold of it.
splitloc_bounds_unsorted(splitlocs) ==
    [c \in 1..6 |->
        LET dlocs == get(splitlocs, Axes[IF c <= 3 THEN c ELSE c - 3])
        IN  IF Len(dlocs) = 0 THEN (IF c <= 3 THEN Inf ELSE -Inf)
            ELSE IF c <= 3 THEN dlocs[1] ELSE dlocs[Len(dlocs)]]

\* Bounds(*(mins + maxs)): first and last sorted location of each axis,
\* (inf, -inf) for an axis without locations.
splitloc_bounds(splitlocs) ==
    LET sl == from_splitlocs_splitlocs(splitlocs)
    IN  [c \in 1..6 |->
            LET dlocs == sl[Axes[IF c <= 3 THEN c ELSE c - 3]]
            IN  IF Len(dlocs) = 0 THEN (IF c <= 3 THEN Inf ELSE -Inf)
                ELSE IF c <= 3 THEN dlocs[1] ELSE dlocs[Len(dlocs)]]

\* merge_bounds([pc.bounds for pc in pcs])
pcs_bounds(pcs) == merge_bounds([i \in DOMAIN pcs |-> Bounds(pcs[i])])

\* from_splitlocs: the exception raised ("none" when it returns).
from_splitlocs_err(pcs, splitlocs) ==
    IF ~inside_bounds(splitloc_bounds(splitlocs), pcs_bounds(pcs))
    THEN "ValueError" ELSE "none"

\* from_splitlocs: the TilesGrid, built without validation, or None.
from_splitlocs(pcs, splitlocs) ==
    LET sl == from_splitlocs_splitlocs(splitlocs)
    IN  IF from_splitlocs_err(pcs, splitlocs) # "none" THEN None
        ELSE init(retile(pcs, sl),
                  make_edges_grid(pcs_bounds(pcs), retile_splitlocs(sl)),
                  FALSE)

\* ------------------------------------------------------------ __getitem__
\* The specifiers of a key: None, an integer, a slice(start, stop, step).
NoneSpec == [kind |-> "None", start |-> None, stop |-> None, step |-> None]
IntSpec(i) == [kind |-> "int", start |-> Some(i), stop |-> None, step |-> None]
SliceSpec(a, b, c) == [kind |-> "slice", start |-> a, stop |-> b, step |-> c]

\* slice(start, stop, step).indices(length) of Python, for step # 0.
indices(start, stop, step, length) ==
    LET st == IF IsNone(step) THEN 1 ELSE Val(step)
        lower == IF st < 0 THEN -1 ELSE 0
        upper == IF st < 0 THEN length - 1 ELSE length
        clip(v) == IF v < 0 THEN (IF v + length < lower THEN lower ELSE v + length)
                   ELSE (IF v > upper THEN upper ELSE v)
    IN  [start |-> IF IsNone(start) THEN (IF st < 0 THEN upper ELSE lower)
                   ELSE clip(Val(start)),
         stop |-> IF IsNone(stop) THEN (IF st < 0 THEN lower ELSE upper)
                  ELSE clip(Val(stop)),
         step |-> st]

\* The specifier of axis a: izip_longest fills a short key with slice(None).
key_at(key, a) == IF a <= Len(key) THEN key[a] ELSE SliceSpec(None, None, None)

\* The (start, stop, step) one specifier freezes to on an axis of nd tiles.
freeze(sl, nd) ==
    IF sl.kind = "slice" THEN indices(sl.start, sl.stop, sl.step, nd)
    ELSE IF sl.kind = "None" THEN indices(None, None, None, nd)
    ELSE indices(sl.start, Some(Val(sl.start) + 1), None, nd)

\* A variant of step_raises that lets reversed steps through; C6 does not
\* hold of it.
step_raises_strides(sl, nd) ==
    IF sl.kind = "slice" /\ ~IsNone(sl.step) /\ Val(sl.step) = 0 THEN TRUE
    ELSE freeze(sl, nd).step > 1

\* The specifier raises ValueError: slice.indices on a zero step, or the
\* check that the step is 1.
step_raises(sl, nd) ==
    IF sl.kind = "slice" /\ ~IsNone(sl.step) /\ Val(sl.step) = 0 THEN TRUE
    ELSE freeze(sl, nd).step # 1

\* key_: the frozen slice of each axis.
key_(key, shape) == [a \in 1..3 |-> freeze(key_at(key, a), shape[a])]

\* A variant of ekey that extends every stop, empty tile ranges too; C3
\* does not hold of it.
ekey_always(key, shape) ==
    [a \in 1..3 |->
        LET sl == key_(key, shape)[a]
        IN  [start |-> sl.start, stop |-> sl.stop + 1]]

\* ekey: stops extended by one, except where the tile range is empty.
ekey(key, shape) ==
    [a \in 1..3 |->
        LET sl == key_(key, shape)[a]
        IN  IF sl.stop - sl.start # 0
            THEN [start |-> sl.start, stop |-> sl.stop + 1]
            ELSE [start |-> sl.start, stop |-> sl.stop]]

\* array[slices]: numpy basic slicing of a 3D array with one slice per axis.
take(array, slices) ==
    LET fr == [a \in 1..3 |-> indices(Some(slices[a].start), Some(slices[a].stop),
                                      None, array.shape[a])]
        shape == [a \in 1..3 |-> IF fr[a].stop > fr[a].start
                                 THEN fr[a].stop - fr[a].start ELSE 0]
    IN  [shape |-> shape,
         arr |-> [idx \in Indices(shape) |->
                    array.arr[[a \in 1..3 |-> idx[a] + fr[a].start]]]]

\* __getitem__: the exception raised ("none" when it returns).
getitem_err(g, key) ==
    IF \E a \in 1..3 : step_raises(key_at(key, a), g.tiles.shape[a])
    THEN "ValueError" ELSE "none"

\* A variant of getitem that slices the tiles and leaves the edges whole;
\* C2 does not hold of it.
getitem_whole_edges(g, key) ==
    IF getitem_err(g, key) # "none" THEN None
    ELSE init(take(g.tiles, key_(key, g.tiles.shape)), g.edges, FALSE)

\* __getitem__: the sub-grid, built without validation, or None.
getitem(g, key) ==
    IF getitem_err(g, key) # "none" THEN None
    ELSE init(take(g.tiles, key_(key, g.tiles.shape)),
              take(g.edges, ekey(key, g.tiles.shape)), FALSE)

\* ================================================================ inputs
Coords == 0..MaxCoord

\* Split locations are drawn, in any order and with repeats, from the two
\* interior coordinates next to the faces of the cube.
LocCoords == {1, MaxCoord - 1}

\* The points of the input clouds: the main diagonal of the cube Coords^3
\* and two opposite corners off it.
PointPool ==
    {<<a, a, a>> : a \in Coords}
        \cup {<<0, MaxCoord, 0>>, <<0, 0, MaxCoord>>}

\* The ways to hand the points S over: in one cloud, or divided between
\* two clouds.
Divisions(S) ==
    {<<S>>} \cup {<<A, S \ A>> : A \in (SUBSET S) \ {{}, S}}

\* Input clouds: at most MaxPts points in all.
PcsPool ==
    UNION {Divisions(S) :
            S \in {T \in SUBSET PointPool :
                    Cardinality(T) >= 1 /\ Cardinality(T) <= MaxPts}}

\* Mappings over the axes D with exactly n locations in all.
RECURSIVE SplitlocsOf(_, _)
SplitlocsOf(D, n) ==
    IF D = {} THEN (IF n = 0 THEN {<<>>} ELSE {})
    ELSE LET d == CHOOSE e \in D : TRUE
         IN  UNION {{(d :> l) @@ sl : l \in [1..k -> LocCoords],
                                      sl \in SplitlocsOf(D \ {d}, n - k)} :
                    k \in 0..n}

\* Split-location mappings: any subset of the axes, at most MaxLocs
\* locations in all.
SplitlocsPool ==
    UNION {SplitlocsOf(D, n) : D \in SUBSET AxisSet, n \in 0..MaxLocs}

\* The mappings that list at least one location for each axis they name.
SplitlocsSome == {sl \in SplitlocsPool : \A d \in DOMAIN sl : Len(sl[d]) > 0}

\* One cloud of all the points, and the diagonal beside the two corners.
PcsWhole ==
    {<<PointPool>>,
     <<{<<a, a, a>> : a \in Coords}, {<<0, MaxCoord, 0>>, <<0, 0, MaxCoord>>}>>}

\* Bounds handed to make_edges_grid: the clouds' merged bounds, or a box
\* of the cube.
BoundsPool(clouds) ==
    {pcs_bounds(clouds)}
        \cup {<<l, 0, l, h, MaxCoord, h>> : l \in {0, 1}, h \in {MaxCoord - 1, MaxCoord}}

\* ================================================================= state
VARIABLES
    pcs,        \* the caller's sequence of point clouds
    given,      \* the split-location mapping as the caller wrote it
    splitlocs,  \* the caller's mapping object, as the calls have left it
    op,         \* the last call
    arg,        \* its argument besides pcs and splitlocs (bounds, key, ...)
    ret,        \* its return value, None when it raised
    err,        \* the exception it raised, "none" when it returned
    grid,       \* the TilesGrid the caller holds (None before there is one)
    root        \* the TilesGrid the caller constructed first

vars == <<pcs, given, splitlocs, op, arg, ret, err, grid, root>>

\* ---------------------------------------------- retiling: tiles.py 96-309
Init ==
    /\ pcs \in PcsWhole
    /\ given \in SplitlocsPool
    /\ splitlocs = given
    /\ op = "start"
    /\ arg = None
    /\ ret = None
    /\ err = "none"
    /\ grid = None
    /\ root = None

\* tiles = retile(pcs, splitlocs)
Retile ==
    /\ op' = "retile"
    /\ arg' = None
    /\ ret' = Some(retile(pcs, splitlocs))
    /\ err' = "none"
    /\ splitlocs' = retile_splitlocs(splitlocs)
    /\ UNCHANGED <<pcs, given, grid, root>>

\* edges = make_edges_grid(bounds, splitlocs)
MakeEdgesGrid ==
    \E bounds \in BoundsPool(pcs) :
        /\ op' = "make_edges_grid"
        /\ arg' = Some(bounds)
        /\ ret' = Some(make_edges_grid(bounds, splitlocs))
        /\ err' = "none"
        /\ splitlocs' = edges_splitlocs(splitlocs)
        /\ UNCHANGED <<pcs, given, grid, root>>

\* grid = TilesGrid.from_splitlocs(pcs, splitlocs)
FromSplitlocs ==
    /\ op' = "from_splitlocs"
    /\ arg' = None
    /\ ret' = from_splitlocs(pcs, splitlocs)
    /\ err' = from_splitlocs_err(pcs, splitlocs)
    /\ splitlocs' = from_splitlocs_splitlocs(splitlocs)
    /\ UNCHANGED <<pcs, given, grid, root>>

Next == Retile \/ MakeEdgesGrid \/ FromSplitlocs

\* Any sequence of the three calls on one mapping object.
Spec == Init /\ [][Next]_vars

\* ------------------------------- from_splitlocs on any clouds: 96-139
InitFactory ==
    /\ pcs \in PcsPool
    /\ given \in SplitlocsSome
    /\ splitlocs = given
    /\ op = "start"
    /\ arg = None
    /\ ret = None
    /\ err = "none"
    /\ grid = None
    /\ root = None

NextFactory == op = "start" /\ FromSplitlocs

SpecFactory == InitFactory /\ [][NextFactory]_vars

\* ------------------------------- construction and slicing: tiles.py 27-94
\* Regular mappings: every axis is split nowhere, at 1, or at 1 and at
\* MaxCoord - 1.
SplitlocsRegular ==
    {sl \in SplitlocsPool :
        /\ DOMAIN sl = AxisSet
        /\ \A d \in AxisSet : sl[d] \in {<<>>, <<1>>, <<1, MaxCoord - 1>>}}

\* Bounds of the edges handed to TilesGrid(tiles, edges): the cube, which
\* contains every tile, and a box that leaves points outside.
GridBounds ==
    {<<0, 0, 0, MaxCoord, MaxCoord, MaxCoord>>,
     <<1, 0, 0, MaxCoord, MaxCoord, MaxCoord - 1>>}

\* (tiles, edges) pairs of matching shapes handed to TilesGrid(tiles, edges).
GridPool(clouds) ==
    {<<retile(clouds, sl), make_edges_grid(b, sl)>> :
        sl \in SplitlocsRegular, b \in GridBounds}

Idx == (-MaxIdx)..MaxIdx
OptIdx == {None} \cup {Some(i) : i \in Idx}

\* The specifiers of one axis.
Specs ==
    {NoneSpec}
        \cup {IntSpec(i) : i \in Idx}
        \cup {SliceSpec(a, b, None) : a \in OptIdx, b \in OptIdx}
        \cup {SliceSpec(a, None, Some(st)) :
                a \in {None, Some(1)}, st \in {1, 2, -1, 0}}

\* A few of them: None, ':', 0, '1:', ':-1' and '::2'.
SpecsPlain ==
    {NoneSpec, SliceSpec(None, None, None), IntSpec(0),
     SliceSpec(Some(1), None, None), SliceSpec(None, Some(-1), None),
     SliceSpec(None, None, Some(2))}

\* Keys of up to three plain specifiers.
KeysPlain == UNION {[1..n -> SpecsPlain] : n \in 0..3}

\* Fewer of them: ':', 0, '1:' and '::2'.
SpecsFew ==
    {SliceSpec(None, None, None), IntSpec(0),
     SliceSpec(Some(1), None, None), SliceSpec(None, None, Some(2))}

\* Keys of up to three specifiers: the plain keys, and the keys with any
\* specifier at all in one position and one of the few in the others.
Keys ==
    KeysPlain
        \cup UNION {{[k EXCEPT ![a] = sl] : a \in DOMAIN k, sl \in Specs} :
                        k \in UNION {[1..n -> SpecsFew] : n \in 1..3}}

InitGrid ==
    /\ pcs = <<PointPool>>
    /\ given = <<>>
    /\ splitlocs = given
    /\ op = "start"
    /\ arg = None
    /\ ret = None
    /\ err = "none"
    /\ grid = None
    /\ root = None

\* grid = TilesGrid(tiles, edges, validate=check)
Construct ==
    /\ op = "start"
    /\ \E te \in GridPool(pcs), check \in BOOLEAN :
        /\ op' = "init"
        /\ arg' = Some(<<te[1], te[2], check>>)
        /\ ret' = init(te[1], te[2], check)
        /\ err' = init_err(te[1], te[2], check)
        /\ grid' = init(te[1], te[2], check)
        /\ root' = init(te[1], te[2], check)
        /\ UNCHANGED <<pcs, given, splitlocs>>

\* sub = grid[key], for a key of the set K
GetItem(K) ==
    /\ op \in {"init", "rebind"}
    /\ ~IsNone(grid)
    /\ \E key \in K :
        /\ op' = "getitem"
        /\ arg' = Some(key)
        /\ ret' = getitem(Val(grid), key)
        /\ err' = getitem_err(Val(grid), key)
        /\ UNCHANGED <<pcs, given, splitlocs, grid, root>>

\* grid = sub: the caller goes on with the sub-grid.
Rebind ==
    /\ op = "getitem"
    /\ err = "none"
    /\ op' = "rebind"
    /\ arg' = None
    /\ ret' = None
    /\ grid' = ret
    /\ UNCHANGED <<pcs, given, splitlocs, err, root>>

NextGrid == Construct \/ GetItem(KeysPlain) \/ Rebind

\* A grid is constructed, then sliced again and again.
SpecGrid == InitGrid /\ [][NextGrid]_vars

NextSlice == Construct \/ GetItem(Keys)

\* A grid is constructed, then sliced once with any key.
SpecSlice == InitGrid /\ [][NextSlice]_vars

\* ---------------------------------------------------------------------
\* Properties of retile and make_edges_grid (specification Spec)
\* ---------------------------------------------------------------------

\* Number of locations the caller listed for dimension number a.
GivenLen(a) == Len(get(given, Axes[a]))

\* C8: called with the caller's mapping, retile returns a tiles array of
\* shape (len(x)+1, len(y)+1, len(z)+1) and make_edges_grid an edges array
\* one larger along every spatial axis whose elements are 3-vectors; an
\* axis the mapping does not list counts as having no locations.
C8_ShapesInLockstep ==
    /\ op = "retile" =>
         /\ Val(ret).shape = [a \in 1..3 |-> GivenLen(a) + 1]
         /\ DOMAIN Val(ret).arr = Indices([a \in 1..3 |-> GivenLen(a) + 1])
    /\ op = "make_edges_grid" =>
         /\ Val(ret).shape = [a \in 1..3 |-> GivenLen(a) + 2]
         /\ DOMAIN Val(ret).arr = Indices([a \in 1..3 |-> GivenLen(a) + 2])
         /\ \A idx \in DOMAIN Val(ret).arr : Len(Val(ret).arr[idx]) = 3

\* A mapping listing one location on x and one on y, and no z at all, is
\* retiled into a (2, 2, 1) array.
C8_Witness ==
    /\ op = "retile"
    /\ DOMAIN given = {"x", "y"}
    /\ Len(given["x"]) = 1 /\ Len(given["y"]) = 1
    /\ Val(ret).shape = <<2, 2, 1>>
    /\ Cardinality(DOMAIN Val(ret).arr) = 4

\* The coordinates of the edges array along dimension number a, read off
\* the line of vertices through the origin of the array.
EdgeLine(edges, a) ==
    [i \in 1..edges.shape[a] |->
        edges.arr[[c \in 1..3 |-> IF c = a THEN i - 1 ELSE 0]][a]]

\* C9: whatever order the caller lists the locations in, and whether or
\* not retile ran before, the edge coordinates make_edges_grid returns
\* along each axis are [min] + sorted locations + [max], non-decreasing.
C9_EdgesSorted ==
    op = "make_edges_grid" =>
        \A a \in 1..3 :
            LET line == EdgeLine(Val(ret), a)
            IN  /\ line = <<Val(arg)[a]>> \o sorted(get(given, Axes[a]))
                            \o <<Val(arg)[a + 3]>>
                /\ \A i \in 1..(Len(line) - 1) : line[i] <= line[i + 1]

\* C10: the mapping the caller passed is, after any of the three calls,
\* exactly as the caller wrote it.
C10_MappingUnchanged ==
    splitlocs = given

\* ---------------------------------------------------------------------
\* Properties of from_splitlocs (specification SpecFactory)
\* ---------------------------------------------------------------------

\* All the points handed to the factory.
AllPoints == UNION {pcs[i] : i \in DOMAIN pcs}

\* C1: every grid from_splitlocs returns passes validate(), whatever tiles
\* are empty and whatever tiles are merged from several input clouds.
C1_FactoryGridValid ==
    (op = "from_splitlocs" /\ err = "none") =>
        /\ ~IsNone(ret)
        /\ validate(Val(ret))

\* from_splitlocs returned a grid of several tiles, one of them empty and
\* one of them holding points of both input clouds.
C1_Witness ==
    /\ op = "from_splitlocs" /\ err = "none" /\ ~IsNone(ret)
    /\ Len(pcs) = 2
    /\ Cardinality(DOMAIN Val(ret).tiles.arr) > 1
    /\ \E idx \in DOMAIN Val(ret).tiles.arr : Val(ret).tiles.arr[idx] = {}
    /\ \E idx \in DOMAIN Val(ret).tiles.arr :
            /\ Val(ret).tiles.arr[idx] \cap pcs[1] # {}
            /\ Val(ret).tiles.arr[idx] \cap pcs[2] # {}

\* Location v of dimension d is strictly within the merged bounds.
StrictlyWithin(v, d) ==
    /\ \E p \in AllPoints : p[Ax(d)] < v
    /\ \E p \in AllPoints : p[Ax(d)] > v

\* C5: from_splitlocs raises the out-of-bounds error, and builds no grid,
\* exactly when some location the caller listed is not strictly within the
\* merged bounds of the clouds on its axis (equal to the min or the max
\* counts as outside); axes without locations never make it fail.
C5_OutOfBoundsRaises ==
    op = "from_splitlocs" =>
        /\ err = "ValueError" <=>
              \E d \in DOMAIN given : \E i \in DOMAIN given[d] :
                    ~StrictlyWithin(given[d][i], d)
        /\ err = "ValueError" => IsNone(ret)
        /\ err = "none" => ~IsNone(ret)

\* from_splitlocs raised for a location equal to the merged min of its
\* axis, every location lying within the closed merged bounds.
C5_Witness ==
    /\ op = "from_splitlocs" /\ err = "ValueError" /\ IsNone(ret)
    /\ \E d \in DOMAIN given : \E i \in DOMAIN given[d] :
            given[d][i] = Min({p[Ax(d)] : p \in AllPoints})
    /\ \A d \in DOMAIN given : \A i \in DOMAIN given[d] :
            /\ given[d][i] >= Min({p[Ax(d)] : p \in AllPoints})
            /\ given[d][i] <= Max({p[Ax(d)] : p \in AllPoints})
    /\ DOMAIN given # AxisSet

\* ---------------------------------------------------------------------
\* Properties of TilesGrid(tiles, edges) and of sequences of slices
\* (specification SpecGrid)
\* ---------------------------------------------------------------------

\* Every point of every tile lies, on every axis, between the coordinate
\* of the edge vertex at the tile's index and that of the vertex one
\* further along every axis, either end included.
Contained(tiles, edges) ==
    \A idx \in DOMAIN tiles.arr : \A p \in tiles.arr[idx] : \A c \in 1..3 :
        /\ edges.arr[idx][c] <= p[c]
        /\ p[c] <= edges.arr[<<idx[1] + 1, idx[2] + 1, idx[3] + 1>>][c]

C2_SlicingKeepsValid ==
    (~IsNone(root) /\ validate(Val(root))) =>
        /\ ~IsNone(grid) /\ validate(Val(grid))
        /\ (op = "getitem" /\ err = "none") =>
                (~IsNone(ret) /\ validate(Val(ret)))

\* A slice of a slice of a valid grid returned a proper, non-empty
\* sub-grid.
C2_Witness ==
    /\ ~IsNone(root) /\ validate(Val(root))
    /\ op = "getitem" /\ err = "none" /\ ~IsNone(ret)
    /\ grid # root
    /\ Val(ret) # Val(grid)
    /\ DOMAIN Val(ret).tiles.arr # {}

\* ---------------------------------------------------------------------
\* Properties of one __getitem__ call (specification SpecSlice)
\* ---------------------------------------------------------------------

\* The tile positions, of an axis of n tiles, that the specifier at
\* position a of the key stands for in array indexing: all of them when
\* the specifier is omitted or None, the one at i for an integer i
\* (counted from the end when negative), those from start up to stop for
\* a slice.
Positions(key, a, n) ==
    LET norm(v) == IF v < 0 THEN v + n ELSE v
    IN  IF a > Len(key) \/ key[a].kind = "None" THEN 0..(n - 1)
        ELSE IF key[a].kind = "int"
             THEN {i \in 0..(n - 1) : i = norm(Val(key[a].start))}
        ELSE {i \in 0..(n - 1) :
                /\ IsNone(key[a].start) \/ norm(Val(key[a].start)) <= i
                /\ IsNone(key[a].stop) \/ i < norm(Val(key[a].stop))}

\* The key is made of None, step-1 slices and in-range integers that are
\* not negative.
StepOneKey(key, shape) ==
    \A a \in DOMAIN key :
        \/ key[a].kind = "None"
        \/ key[a].kind = "slice" /\ key[a].step \in {None, Some(1)}
        \/ /\ key[a].kind = "int"
           /\ Val(key[a].start) >= 0 /\ Val(key[a].start) < shape[a]

\* C3: for a key of up to three step-1 specifiers, __getitem__ returns a
\* grid whose tiles have, along each axis, as many positions as the
\* specifier's range clipped to the axis has, and whose edges have one
\* more than that along the axis, or none at all where the tile range is
\* empty.
C3_SliceShapes ==
    (op = "getitem" /\ StepOneKey(Val(arg), Val(grid).tiles.shape)) =>
        /\ err = "none" /\ ~IsNone(ret)
        /\ \A a \in 1..3 :
            LET len == Cardinality(
                         Positions(Val(arg), a, Val(grid).tiles.shape[a]))
            IN  /\ Val(ret).tiles.shape[a] = len
                /\ Val(ret).edges.shape[a] = IF len = 0 THEN 0 ELSE len + 1
        /\ DOMAIN Val(ret).tiles.arr = Indices(Val(ret).tiles.shape)
        /\ DOMAIN Val(ret).edges.arr = Indices(Val(ret).edges.shape)
        /\ \A idx \in DOMAIN Val(ret).edges.arr :
                Len(Val(ret).edges.arr[idx]) = 3

\* A (3, 1, 1) grid sliced with [1:, 1:, 0] gave tiles of shape (2, 0, 1)
\* and edges of shape (3, 0, 2).
C3_Witness ==
    /\ op = "getitem" /\ err = "none" /\ ~IsNone(ret)
    /\ Val(grid).tiles.shape = <<3, 1, 1>>
    /\ Val(arg) = <<SliceSpec(Some(1), None, None),
                    SliceSpec(Some(1), None, None), IntSpec(0)>>
    /\ Val(ret).tiles.shape = <<2, 0, 1>>
    /\ Val(ret).edges.shape = <<3, 0, 2>>

\* C4: an integer specifier i with -n <= i < n, on an axis of n tiles,
\* selects exactly one tile along the axis, the parent's tile at position
\* i mod n, together with the two edges that enclose it.
C4_IntSelectsOneTile ==
    (op = "getitem" /\ err = "none") =>
        \A a \in DOMAIN Val(arg) :
            LET n == Val(grid).tiles.shape[a]
                sl == Val(arg)[a]
            IN  (sl.kind = "int" /\ -n <= Val(sl.start) /\ Val(sl.start) < n) =>
                    /\ Val(ret).tiles.shape[a] = 1
                    /\ Val(ret).edges.shape[a] = 2
                    /\ \A idx \in DOMAIN Val(ret).tiles.arr :
                        \E pidx \in DOMAIN Val(grid).tiles.arr :
                            /\ pidx[a] = Val(sl.start) % n
                            /\ Val(ret).tiles.arr[idx] = Val(grid).tiles.arr[pidx]
                    /\ \A idx \in DOMAIN Val(ret).edges.arr :
                        \E pidx \in DOMAIN Val(grid).edges.arr :
                            /\ pidx[a] = (Val(sl.start) % n) + idx[a]
                            /\ Val(ret).edges.arr[idx] = Val(grid).edges.arr[pidx]

\* Some specifier of the key is a slice whose step is given and is not 1.
BadStep(key) ==
    \E a \in DOMAIN key :
        /\ key[a].kind = "slice"
        /\ ~IsNone(key[a].step)
        /\ Val(key[a].step) # 1

\* C6: a __getitem__ call whose key has, in any position, a specifier
\* with a step other than 1 raises the unsupported-step error, returns no
\* grid, and leaves the parent grid as it was.
C6_StepRaises ==
    [][(op' = "getitem" /\ BadStep(Val(arg'))) =>
            (err' = "ValueError" /\ IsNone(ret') /\ grid' = grid
                /\ root' = root)]_vars

\* A key of three specifiers, the first two of them valid and the last
\* one reversed, raised.
C6_Witness ==
    /\ op = "getitem" /\ err = "ValueError" /\ IsNone(ret)
    /\ Len(Val(arg)) = 3
    /\ ~BadStep(SubSeq(Val(arg), 1, 2))
    /\ Val(arg)[3] = SliceSpec(None, None, Some(-1))
    /\ grid = root
====
